---------------------------- MODULE Spec2Model ----------------------------
(***************************************************************************)
(* A model of src/main.py, the RLM scheduling relay.                       *)
(*                                                                         *)
(* Python strings are sequences of one-character strings, so that strip,  *)
(* lower, the regular expressions, json.loads and strptime are computed   *)
(* character by character.  Python values (the results of json.loads) are *)
(* tagged records.  A call that raises is a result record with ok = FALSE *)
(* (or an "exc" field naming the exception).                              *)
(***************************************************************************)
EXTENDS Integers, Sequences, FiniteSets, TLC

VARIABLES
    env,        \* the process environment read by os.getenv
    libc,       \* the platform's C library, whose strftime formats %Y
    clock,      \* what datetime.now() returns while the request is served
    pc,         \* where the request being served is
    endpoint,   \* the route of the request being served
    request,    \* its body
    payload,    \* the JSON body handed to requests.post
    posts,      \* number of requests.post calls made for this request
    upstream,   \* what requests.post produced
    outcome,    \* what the caller of the route receives
    fnIn,       \* argument(s) of the pure function under test
    fnOut       \* its result(s)

vars == <<env, libc, clock, pc, endpoint, request, payload, posts, upstream, outcome,
          fnIn, fnOut>>

-----------------------------------------------------------------------------
(* Characters and str methods *)

UpperChars == <<"A","B","C","D","E","F","G","H","I","J","K","L","M",
                "N","O","P","Q","R","S","T","U","V","W","X","Y","Z">>
LowerChars == <<"a","b","c","d","e","f","g","h","i","j","k","l","m",
                "n","o","p","q","r","s","t","u","v","w","x","y","z">>
DigitChars == <<"0","1","2","3","4","5","6","7","8","9">>

Range(f) == { f[i] : i \in DOMAIN f }

IsUpper(c) == c \in Range(UpperChars)
IsAlpha(c) == c \in Range(UpperChars) \cup Range(LowerChars)
IsDigit(c) == c \in Range(DigitChars)
IsSpace(c) == c \in {" ", "\t", "\n", "\r", "\f"}

DigitVal(c) == (CHOOSE i \in DOMAIN DigitChars : DigitChars[i] = c) - 1

LowerChar(c) ==
    IF IsUpper(c)
    THEN LowerChars[CHOOSE i \in DOMAIN UpperChars : UpperChars[i] = c]
    ELSE c

\* str.lower()
str_lower(s) == [i \in 1..Len(s) |-> LowerChar(s[i])]

\* s[i], or the empty string past either end
At(s, i) == IF i \in 1..Len(s) THEN s[i] ELSE ""

MinOf(S) == CHOOSE x \in S : \A y \in S : x <= y
MaxOf(S) == CHOOSE x \in S : \A y \in S : x >= y

\* str.strip()
str_strip(s) ==
    LET ns == { i \in 1..Len(s) : ~IsSpace(s[i]) }
    IN  IF ns = {} THEN <<>> ELSE SubSeq(s, MinOf(ns), MaxOf(ns))

\* s[:n]
str_prefix(s, n) == SubSeq(s, 1, IF n < Len(s) THEN n ELSE Len(s))

\* s.startswith(p, i) with i 1-based
StartsWithAt(s, i, p) ==
    /\ i + Len(p) - 1 <= Len(s)
    /\ \A k \in 1..Len(p) : s[i + k - 1] = p[k]

\* the value of a run of decimal digits
RECURSIVE DigitsVal(_)
DigitsVal(s) ==
    IF s = <<>> THEN 0
    ELSE 10 * DigitsVal(SubSeq(s, 1, Len(s) - 1)) + DigitVal(s[Len(s)])

AllDigits(s, i, n) == \A k \in i..(i + n - 1) : IsDigit(At(s, k))

-----------------------------------------------------------------------------
(* Python values *)

PyNone     == [t |-> "none"]
PyBool(b)  == [t |-> "bool", b |-> b]
PyInt(n)   == [t |-> "int", n |-> n]
PyStr(s)   == [t |-> "str", s |-> s]
PyList(xs) == [t |-> "list", xs |-> xs]
\* a dict is its items in insertion order, keys distinct
PyDict(kv) == [t |-> "dict", kv |-> kv]

\* bool(v): the truth value `not v` and `if v` test
Truthy(v) ==
    CASE v.t = "none" -> FALSE
      [] v.t = "bool" -> v.b
      [] v.t = "int"  -> v.n # 0
      [] v.t = "str"  -> v.s # <<>>
      [] v.t = "list" -> v.xs # <<>>
      [] v.t = "dict" -> v.kv # <<>>

\* d[k] = v on a dict's items: a key already present keeps its place
DictSet(kv, k, v) ==
    IF \E i \in DOMAIN kv : kv[i][1] = k
    THEN [i \in DOMAIN kv |-> IF kv[i][1] = k THEN <<k, v>> ELSE kv[i]]
    ELSE Append(kv, <<k, v>>)

DictHas(kv, k) == \E i \in DOMAIN kv : kv[i][1] = k
DictGet(kv, k) == kv[CHOOSE i \in DOMAIN kv : kv[i][1] = k][2]

-----------------------------------------------------------------------------
(* json.loads on a str.  The grammar is JSON without string escapes and     *)
(* without fractions or exponents; the input texts are drawn from it.      *)

JsonWs == {" ", "\t", "\n", "\r"}

\* first position from i on that holds no JSON whitespace
SkipWs(s, i) ==
    LET js == { j \in i..Len(s) : s[j] \notin JsonWs }
    IN  IF js = {} THEN Len(s) + 1 ELSE MinOf(js)

JsonFail == [ok |-> FALSE, v |-> PyNone, i |-> 0]
JsonOk(v, i) == [ok |-> TRUE, v |-> v, i |-> i]

\* a string literal opening at s[i]; control characters are rejected
ParseString(s, i) ==
    LET qs == { j \in (i + 1)..Len(s) : s[j] = "\"" }
    IN  IF qs = {} THEN JsonFail
        ELSE LET j == MinOf(qs)
                 body == SubSeq(s, i + 1, j - 1)
             IN  IF \E k \in DOMAIN body : body[k] \in {"\n", "\t", "\r", "\f"}
                 THEN JsonFail
                 ELSE JsonOk(PyStr(body), j + 1)

\* an integer literal opening at s[i]: -?(0|[1-9][0-9]*)
ParseNumber(s, i) ==
    LET neg == At(s, i) = "-"
        b   == IF neg THEN i + 1 ELSE i
        nd  == { j \in b..(Len(s) + 1) : ~IsDigit(At(s, j)) }
        e   == IF At(s, b) = "0" THEN b + 1 ELSE MinOf(nd)
    IN  IF ~IsDigit(At(s, b)) THEN JsonFail
        ELSE LET n == DigitsVal(SubSeq(s, b, e - 1))
             IN  JsonOk(PyInt(IF neg THEN 0 - n ELSE n), e)

RECURSIVE ParseValue(_, _), ParseMembers(_, _, _), ParseElements(_, _, _)

\* a value opening at s[i]
ParseValue(s, i) ==
    LET c == At(s, i)
    IN  CASE c = "{" ->
               LET j == SkipWs(s, i + 1)
               IN  IF At(s, j) = "}" THEN JsonOk(PyDict(<<>>), j + 1)
                   ELSE ParseMembers(s, j, <<>>)
          [] c = "[" ->
               LET j == SkipWs(s, i + 1)
               IN  IF At(s, j) = "]" THEN JsonOk(PyList(<<>>), j + 1)
                   ELSE ParseElements(s, j, <<>>)
          [] c = "\"" -> ParseString(s, i)
          [] c = "-" \/ IsDigit(c) -> ParseNumber(s, i)
          [] StartsWithAt(s, i, <<"t","r","u","e">>) -> JsonOk(PyBool(TRUE), i + 4)
          [] StartsWithAt(s, i, <<"f","a","l","s","e">>) -> JsonOk(PyBool(FALSE), i + 5)
          [] StartsWithAt(s, i, <<"n","u","l","l">>) -> JsonOk(PyNone, i + 4)
          [] OTHER -> JsonFail

\* "key" : value pairs from s[i] to the closing brace; a repeated key
\* overwrites the earlier value and keeps the earlier position
ParseMembers(s, i, acc) ==
    IF At(s, i) # "\"" THEN JsonFail
    ELSE LET k == ParseString(s, i)
         IN  IF ~k.ok THEN JsonFail
             ELSE LET c == SkipWs(s, k.i)
                  IN  IF At(s, c) # ":" THEN JsonFail
                      ELSE LET v == ParseValue(s, SkipWs(s, c + 1))
                           IN  IF ~v.ok THEN JsonFail
                               ELSE LET acc2 == DictSet(acc, k.v.s, v.v)
                                        e == SkipWs(s, v.i)
                                    IN  CASE At(s, e) = "}" -> JsonOk(PyDict(acc2), e + 1)
                                          [] At(s, e) = "," ->
                                               ParseMembers(s, SkipWs(s, e + 1), acc2)
                                          [] OTHER -> JsonFail

\* values from s[i] to the closing bracket
ParseElements(s, i, acc) ==
    LET v == ParseValue(s, i)
    IN  IF ~v.ok THEN JsonFail
        ELSE LET acc2 == Append(acc, v.v)
                 e == SkipWs(s, v.i)
             IN  CASE At(s, e) = "]" -> JsonOk(PyList(acc2), e + 1)
                   [] At(s, e) = "," -> ParseElements(s, SkipWs(s, e + 1), acc2)
                   [] OTHER -> JsonFail

\* json.loads(s): ok = FALSE stands for json.JSONDecodeError
json_loads(s) ==
    LET r == ParseValue(s, SkipWs(s, 1))
    IN  IF ~r.ok THEN [ok |-> FALSE, v |-> PyNone]
        ELSE IF SkipWs(s, r.i) # Len(s) + 1 THEN [ok |-> FALSE, v |-> PyNone]
        ELSE [ok |-> TRUE, v |-> r.v]

-----------------------------------------------------------------------------
(* Values of the variables a specification does not use *)

NoEnv == [API_HEADER_VALUE |-> PyNone, API_HEADER_KEY |-> PyNone]
NoUpstream == [kind |-> "none"]
NoOutcome == [kind |-> "none"]
Clocks == { [Y |-> 2026, m |-> 11, d |-> 1, H |-> 16, M |-> 18, S |-> 5],
            [Y |-> 2027, m |-> 2, d |-> 3, H |-> 4, M |-> 5, S |-> 6] }
LibCs == {"glibc", "other"}
\* glibc's strftime does not zero-fill %Y
PadsYear == libc # "glibc"

-----------------------------------------------------------------------------
(* The Questionnaire Matcher: transform_questions_with_api_match            *)

K_questionDescription == <<"q","u","e","s","t","i","o","n","D","e","s","c","r","i","p","t","i","o","n">>
K_questionId == <<"q","u","e","s","t","i","o","n","I","d">>
K_questionResponse == <<"q","u","e","s","t","i","o","n","R","e","s","p","o","n","s","e">>
NA == <<"n","a">>

Returned(v) == [exc |-> "", v |-> v]
Raised(e)   == [exc |-> e, v |-> PyNone]

\* iter(v): the elements a for loop or a comprehension visits
PyIter(v) ==
    CASE v.t = "list" -> [ok |-> TRUE, xs |-> v.xs]
      [] v.t = "dict" -> [ok |-> TRUE, xs |-> [i \in DOMAIN v.kv |-> PyStr(v.kv[i][1])]]
      [] v.t = "str"  -> [ok |-> TRUE, xs |-> [i \in DOMAIN v.s |-> PyStr(<<v.s[i]>>)]]
      [] OTHER        -> [ok |-> FALSE, xs |-> <<>>]

\* q[key] with a str key
Subscript(q, key) ==
    IF q.t = "dict"
    THEN IF DictHas(q.kv, key) THEN Returned(DictGet(q.kv, key)) ELSE Raised("KeyError")
    ELSE Raised("TypeError")

\* x.lower()
MethodLower(x) ==
    IF x.t = "str" THEN Returned(PyStr(str_lower(x.s))) ELSE Raised("AttributeError")

\* the dict display {"questionDescription": q[..], "questionId": q[..],
\* "questionResponse": resp}, evaluated left to right; resp is the result
\* of the expression in the last position
QuestionEntry(q, resp) ==
    LET d == Subscript(q, K_questionDescription)
        n == Subscript(q, K_questionId)
    IN  IF d.exc # "" THEN Raised(d.exc)
        ELSE IF n.exc # "" THEN Raised(n.exc)
        ELSE IF resp.exc # "" THEN Raised(resp.exc)
        ELSE Returned(PyDict(<< <<K_questionDescription, d.v>>,
                               <<K_questionId, n.v>>,
                               <<K_questionResponse, resp.v>> >>))

\* a sequence of per-element results collected into a list, or the first
\* exception raised
Collect(rs) ==
    LET bad == { i \in DOMAIN rs : rs[i].exc # "" }
    IN  IF bad = {} THEN Returned(PyList([i \in DOMAIN rs |-> rs[i].v]))
        ELSE Raised(rs[MinOf(bad)].exc)

\* EmptyResponses with "na" in place of the empty response
EmptyResponses_na(api_questions) ==
    LET it == PyIter(api_questions)
    IN  IF ~it.ok THEN Raised("TypeError")
        ELSE Collect([i \in DOMAIN it.xs |->
                         QuestionEntry(it.xs[i], Returned(PyStr(NA)))])

\* [{..., "questionResponse": ""} for q in api_questions]
EmptyResponses(api_questions) ==
    LET it == PyIter(api_questions)
    IN  IF ~it.ok THEN Raised("TypeError")
        ELSE Collect([i \in DOMAIN it.xs |->
                         QuestionEntry(it.xs[i], Returned(PyStr(<<>>)))])

\* FinalResponse without the "na" for an empty answer
FinalResponse_keeps_empty(user_questions_list, i) ==
    IF i <= Len(user_questions_list) THEN user_questions_list[i][2] ELSE PyStr(NA)

\* the response chosen for position i (1-based) of the template list
FinalResponse(user_questions_list, i) ==
    IF i <= Len(user_questions_list)
    THEN LET user_response == user_questions_list[i][2]
         IN  IF Truthy(user_response) THEN user_response ELSE PyStr(NA)
    ELSE PyStr(NA)

\* MatchByOrder shaped by the answers, as transform_questions shapes its
\* list: one entry per answer, described by its key, numbered from 1
MatchByOrder_by_answers(user_questions_list, api_questions) ==
    Collect([i \in DOMAIN user_questions_list |->
                LET r == MethodLower(IF Truthy(user_questions_list[i][2])
                                     THEN user_questions_list[i][2] ELSE PyStr(NA))
                IN  IF r.exc # "" THEN r
                    ELSE Returned(PyDict(<<
                             <<K_questionDescription, PyStr(user_questions_list[i][1])>>,
                             <<K_questionId, PyInt(i)>>,
                             <<K_questionResponse, r.v>> >>))])

MatchByOrder(user_questions_list, api_questions) ==
    LET it == PyIter(api_questions)
    IN  IF ~it.ok THEN Raised("TypeError")
        ELSE Collect([i \in DOMAIN it.xs |->
                         QuestionEntry(it.xs[i],
                             MethodLower(FinalResponse(user_questions_list, i)))])

transform_questions_with_api_match(questions_json_string, api_questions) ==
    IF \/ ~Truthy(questions_json_string)
       \/ str_strip(questions_json_string.s) = <<>>
    THEN EmptyResponses(api_questions)
    ELSE LET parsed == json_loads(questions_json_string.s)
         IN  IF ~parsed.ok THEN EmptyResponses(api_questions)
             ELSE LET user_questions_dict == parsed.v
                  IN  IF ~Truthy(user_questions_dict)
                      THEN EmptyResponses(api_questions)
                      ELSE IF user_questions_dict.t # "dict"
                      THEN Raised("AttributeError")
                      ELSE MatchByOrder(user_questions_dict.kv, api_questions)

-----------------------------------------------------------------------------
(* The Field Normalizer: blanks and the consent flag                        *)

S_null == <<"n","u","l","l">>
S_none == <<"n","o","n","e">>
S_true == <<"t","r","u","e">>
S_false == <<"f","a","l","s","e">>
S_yes == <<"y","e","s">>

\* value is None or a str; the result is a str
handle_null_or_empty(value, default) ==
    IF \/ ~Truthy(value)
       \/ str_strip(value.s) = <<>>
       \/ str_lower(value.s) \in {S_null, S_none}
    THEN default
    ELSE value.s

transform_ai_consent(consent_value) ==
    LET cleaned_value == handle_null_or_empty(consent_value, S_false)
    IN  IF str_lower(cleaned_value) \in {S_true, S_yes, <<"1">>, <<"y">>}
        THEN S_true
        ELSE S_false

-----------------------------------------------------------------------------
(* datetime: strptime, strftime, fromisoformat                              *)

MonthNames == <<
    <<"j","a","n","u","a","r","y">>,
    <<"f","e","b","r","u","a","r","y">>,
    <<"m","a","r","c","h">>,
    <<"a","p","r","i","l">>,
    <<"m","a","y">>,
    <<"j","u","n","e">>,
    <<"j","u","l","y">>,
    <<"a","u","g","u","s","t">>,
    <<"s","e","p","t","e","m","b","e","r">>,
    <<"o","c","t","o","b","e","r">>,
    <<"n","o","v","e","m","b","e","r">>,
    <<"d","e","c","e","m","b","e","r">> >>

IsLeap(y) == (y % 4 = 0 /\ y % 100 # 0) \/ y % 400 = 0

DaysInMonth(y, m) ==
    CASE m \in {1, 3, 5, 7, 8, 10, 12} -> 31
      [] m \in {4, 6, 9, 11} -> 30
      [] OTHER -> IF IsLeap(y) THEN 29 ELSE 28

\* the arguments datetime(...) accepts
ValidDateTime(dt) ==
    /\ dt.Y \in 1..9999
    /\ dt.m \in 1..12
    /\ dt.d \in 1..DaysInMonth(dt.Y, dt.m)
    /\ dt.H \in 0..23
    /\ dt.M \in 0..59
    /\ dt.S \in 0..59

\* the options of a numeric directive at s[i], in the order the regular
\* expression of _strptime tries them: two digits, then one digit
NumOpts(s, i, f, range2, range1) ==
    LET two == IF AllDigits(s, i, 2) /\ DigitsVal(SubSeq(s, i, i + 1)) \in range2
               THEN << [n |-> 2, f |-> f, v |-> DigitsVal(SubSeq(s, i, i + 1))] >>
               ELSE << >>
        one == IF IsDigit(At(s, i)) /\ DigitVal(At(s, i)) \in range1
               THEN << [n |-> 1, f |-> f, v |-> DigitVal(At(s, i))] >>
               ELSE << >>
    IN  two \o one

\* the ways the format token tok can match at s[i], best first
Options(tok, s, i) ==
    CASE tok = "%Y" ->
           IF AllDigits(s, i, 4)
           THEN << [n |-> 4, f |-> "Y", v |-> DigitsVal(SubSeq(s, i, i + 3))] >>
           ELSE << >>
      [] tok = "%m" -> NumOpts(s, i, "m", 1..12, 1..9)
      [] tok = "%d" ->
           NumOpts(s, i, "d", 1..31, 1..9) \o
           ( IF At(s, i) = " " /\ IsDigit(At(s, i + 1)) /\ At(s, i + 1) # "0"
             THEN << [n |-> 2, f |-> "d", v |-> DigitVal(At(s, i + 1))] >>
             ELSE << >> )
      [] tok = "%I" -> NumOpts(s, i, "I", 1..12, 1..9)
      [] tok = "%M" -> NumOpts(s, i, "M", 0..59, 0..9)
      [] tok = "%S" -> NumOpts(s, i, "S", 0..61, 0..9)
      [] tok = "%B" ->
           LET ms == { k \in DOMAIN MonthNames :
                          /\ i + Len(MonthNames[k]) - 1 <= Len(s)
                          /\ str_lower(SubSeq(s, i, i + Len(MonthNames[k]) - 1))
                               = MonthNames[k] }
           IN  IF ms = {} THEN << >>
               ELSE LET k == CHOOSE k \in ms : TRUE
                    IN  << [n |-> Len(MonthNames[k]), f |-> "m", v |-> k] >>
      [] tok = "%p" ->
           LET w == str_lower(SubSeq(s, i, IF i + 1 <= Len(s) THEN i + 1 ELSE Len(s)))
           IN  IF w = <<"a","m">> THEN << [n |-> 2, f |-> "p", v |-> 0] >>
               ELSE IF w = <<"p","m">> THEN << [n |-> 2, f |-> "p", v |-> 1] >>
               ELSE << >>
      [] tok = " " ->
           \* \s+ : the longest run first
           LET ends == { j \in i..Len(s) : \A k \in i..j : IsSpace(s[k]) }
               run  == Cardinality(ends)
           IN  [j \in 1..run |-> [n |-> run - j + 1, f |-> "", v |-> 0]]
      [] OTHER ->
           IF At(s, i) = tok THEN << [n |-> 1, f |-> "", v |-> 0] >> ELSE << >>

StrpFields == [Y |-> 1900, m |-> 1, d |-> 1, I |-> 0, M |-> 0, S |-> 0, p |-> 0 - 1]

RECURSIVE StrpFrom(_, _, _, _, _), StrpTry(_, _, _, _, _, _, _)

\* match fmt[k..] at s[i..], backtracking over the options as re does
StrpFrom(fmt, k, s, i, acc) ==
    IF k > Len(fmt) THEN [ok |-> TRUE, i |-> i, f |-> acc]
    ELSE StrpTry(fmt, k, s, i, acc, Options(fmt[k], s, i), 1)

StrpTry(fmt, k, s, i, acc, opts, j) ==
    IF j > Len(opts) THEN [ok |-> FALSE, i |-> i, f |-> acc]
    ELSE LET o == opts[j]
             r == StrpFrom(fmt, k + 1, s, i + o.n,
                           IF o.f = "" THEN acc ELSE [acc EXCEPT ![o.f] = o.v])
         IN  IF r.ok THEN r ELSE StrpTry(fmt, k, s, i, acc, opts, j + 1)

NoDateTime == [Y |-> 0, m |-> 0, d |-> 0, H |-> 0, M |-> 0, S |-> 0]

\* datetime.strptime(s, fmt): ok = FALSE stands for ValueError
strptime(s, fmt) ==
    LET r == StrpFrom(fmt, 1, s, 1, StrpFields)
    IN  IF ~r.ok \/ r.i # Len(s) + 1 THEN [ok |-> FALSE, dt |-> NoDateTime]
        ELSE LET f == r.f
                 hour == IF f.p = 1
                         THEN (IF f.I = 12 THEN 12 ELSE f.I + 12)
                         ELSE (IF f.I = 12 THEN 0 ELSE f.I)
                 dt == [Y |-> f.Y, m |-> f.m, d |-> f.d,
                        H |-> hour, M |-> f.M, S |-> f.S]
             IN  IF ValidDateTime(dt) THEN [ok |-> TRUE, dt |-> dt]
                 ELSE [ok |-> FALSE, dt |-> NoDateTime]

RECURSIVE IntToDigits(_)
IntToDigits(n) ==
    IF n < 10 THEN << DigitChars[n + 1] >>
    ELSE Append(IntToDigits(n \div 10), DigitChars[(n % 10) + 1])

\* n in decimal, zero-filled to width w
ZeroPad(n, w) ==
    LET ds == IntToDigits(n)
    IN  IF Len(ds) >= w THEN ds ELSE [i \in 1..(w - Len(ds)) |-> "0"] \o ds

\* strftime's %Y: the C library decides whether a year below 1000 is
\* zero-filled (glibc does not fill it)
FormatYear(y, pads) == IF pads THEN ZeroPad(y, 4) ELSE IntToDigits(y)

\* dt.strftime('%Y-%m-%d')
strftime_date(dt, pads) ==
    FormatYear(dt.Y, pads) \o <<"-">> \o ZeroPad(dt.m, 2) \o <<"-">> \o ZeroPad(dt.d, 2)

\* dt.strftime('%Y-%m-%dT%H:%M:%S')
strftime_datetime(dt, pads) ==
    strftime_date(dt, pads) \o <<"T">> \o ZeroPad(dt.H, 2) \o <<":">>
        \o ZeroPad(dt.M, 2) \o <<":">> \o ZeroPad(dt.S, 2)

\* str.replace('Z', '+00:00')
RECURSIVE replace_Z(_)
replace_Z(s) ==
    IF s = <<>> THEN <<>>
    ELSE (IF Head(s) = "Z" THEN <<"+","0","0",":","0","0">> ELSE <<Head(s)>>)
             \o replace_Z(Tail(s))

\* a UTC offset [+-]HH:MM filling s from position i to the end
IsOffsetAt(s, i) ==
    /\ At(s, i) \in {"+", "-"}
    /\ AllDigits(s, i + 1, 2) /\ At(s, i + 3) = ":" /\ AllDigits(s, i + 4, 2)
    /\ Len(s) = i + 5
    /\ DigitsVal(SubSeq(s, i + 1, i + 2)) <= 23
    /\ DigitsVal(SubSeq(s, i + 4, i + 5)) <= 59

\* datetime.fromisoformat(s) on the extended format
\* YYYY-MM-DD[?HH[:MM[:SS[.f+]]][+HH:MM]]; ok = FALSE stands for ValueError
fromisoformat(s) ==
    LET bad == [ok |-> FALSE, dt |-> NoDateTime]
        dateOk == /\ AllDigits(s, 1, 4) /\ At(s, 5) = "-" /\ AllDigits(s, 6, 2)
                  /\ At(s, 8) = "-" /\ AllDigits(s, 9, 2)
        num(i) == DigitsVal(SubSeq(s, i, i + 1))
        hasH == AllDigits(s, 12, 2)
        hasM == hasH /\ At(s, 14) = ":" /\ AllDigits(s, 15, 2)
        hasS == hasM /\ At(s, 17) = ":" /\ AllDigits(s, 18, 2)
        afterS == IF hasS THEN 20 ELSE IF hasM THEN 17 ELSE 14
        fracEnd == IF hasS /\ At(s, 20) \in {".", ","} /\ IsDigit(At(s, 21))
                   THEN MinOf({ j \in 21..(Len(s) + 1) : ~IsDigit(At(s, j)) })
                   ELSE afterS
        tailOk == fracEnd = Len(s) + 1 \/ IsOffsetAt(s, fracEnd)
        dt == [Y |-> DigitsVal(SubSeq(s, 1, 4)), m |-> num(6), d |-> num(9),
               H |-> IF Len(s) > 10 THEN num(12) ELSE 0,
               M |-> IF Len(s) > 10 /\ hasM THEN num(15) ELSE 0,
               S |-> IF Len(s) > 10 /\ hasS THEN num(18) ELSE 0]
    IN  IF ~dateOk THEN bad
        ELSE IF Len(s) = 10 THEN (IF ValidDateTime(dt) THEN [ok |-> TRUE, dt |-> dt] ELSE bad)
        ELSE IF Len(s) = 11 \/ ~hasH \/ ~tailOk THEN bad
        ELSE IF ValidDateTime(dt) THEN [ok |-> TRUE, dt |-> dt] ELSE bad

-----------------------------------------------------------------------------
(* The Field Normalizer: dates and timestamps                               *)

\* where `$` matches: at the end, or before a final newline
AtEnd(s, i) == i = Len(s) + 1 \/ (i = Len(s) /\ s[i] = "\n")

\* \d{4}-\d{2}-\d{2} at s[i]
DateShapeAt(s, i) ==
    /\ AllDigits(s, i, 4) /\ At(s, i + 4) = "-"
    /\ AllDigits(s, i + 5, 2) /\ At(s, i + 7) = "-"
    /\ AllDigits(s, i + 8, 2)

\* \d{2}:\d{2}:\d{2} at s[i]
TimeShapeAt(s, i) ==
    /\ AllDigits(s, i, 2) /\ At(s, i + 2) = ":"
    /\ AllDigits(s, i + 3, 2) /\ At(s, i + 5) = ":"
    /\ AllDigits(s, i + 6, 2)

\* Z?$ at s[i]
OptZEnd(s, i) == AtEnd(s, i) \/ (At(s, i) = "Z" /\ AtEnd(s, i + 1))

\* re.match(r'^\d{4}-\d{2}-\d{2}$', s)
date_pattern(s) == DateShapeAt(s, 1) /\ AtEnd(s, 11)

\* re.match of any of the three datetime_patterns
datetime_patterns(s) ==
    \/ DateShapeAt(s, 1) /\ At(s, 11) = "T" /\ TimeShapeAt(s, 12) /\ OptZEnd(s, 20)
    \/ /\ DateShapeAt(s, 1) /\ At(s, 11) = "T" /\ TimeShapeAt(s, 12)
       /\ At(s, 20) = "." /\ IsDigit(At(s, 21))
       /\ OptZEnd(s, MinOf({ j \in 21..(Len(s) + 1) : ~IsDigit(At(s, j)) }))
    \/ DateShapeAt(s, 1) /\ At(s, 11) = " " /\ TimeShapeAt(s, 12) /\ AtEnd(s, 20)

\* the formats of the loop of transform_schedule_date, in its order
DateFormats == <<
    <<"%Y", "-", "%m", "-", "%d">>,
    <<"%m", "/", "%d", "/", "%Y">>,
    <<"%d", "/", "%m", "/", "%Y">>,
    <<"%Y", "/", "%m", "/", "%d">>,
    <<"%B", " ", "%d", ",", " ", "%Y">>,
    <<"%d", " ", "%B", " ", "%Y">> >>

\* now is datetime.now(); pads is the platform's %Y
transform_schedule_date(date_string, now, pads) ==
    LET cleaned_date == handle_null_or_empty(date_string, <<>>)
        parsed == { k \in DOMAIN DateFormats : strptime(cleaned_date, DateFormats[k]).ok }
    IN  IF cleaned_date = <<>> THEN strftime_date(now, pads)
        ELSE IF date_pattern(cleaned_date) THEN cleaned_date
        ELSE IF datetime_patterns(cleaned_date) THEN str_prefix(cleaned_date, 10)
        ELSE IF parsed # {}
        THEN strftime_date(strptime(cleaned_date, DateFormats[MinOf(parsed)]).dt, pads)
        ELSE strftime_date(now, pads)

\* re.sub(r'^[A-Za-z]+,\s*', '', s)
strip_day_name(s) ==
    LET na == MinOf({ j \in 1..(Len(s) + 1) : ~IsAlpha(At(s, j)) })
    IN  IF na > 1 /\ At(s, na) = ","
        THEN SubSeq(s, MinOf({ j \in (na + 1)..(Len(s) + 1) : ~IsSpace(At(s, j)) }), Len(s))
        ELSE s

\* re.sub(r'\s+[A-Z]{3,4}$', '', s)
strip_timezone(s) ==
    LET ends(p) == LET q == MinOf({ j \in p..(Len(s) + 1) : ~IsSpace(At(s, j)) })
                   IN  { r \in {q + 2, q + 3} :
                           /\ \A k \in q..r : IsUpper(At(s, k))
                           /\ AtEnd(s, r + 1) }
        starts == { p \in 1..Len(s) : IsSpace(s[p]) /\ ends(p) # {} }
    IN  IF starts = {} THEN s
        ELSE LET p == MinOf(starts)
                 r == MaxOf(ends(p))
             IN  SubSeq(s, 1, p - 1) \o SubSeq(s, r + 1, Len(s))

LongFormat == <<"%B", " ", "%d", ",", " ", "%Y", " ",
                "%I", ":", "%M", ":", "%S", " ", "%p">>

\* re.match(r'^\d{4}-\d{2}-\d{2}T\d{2}:\d{2}:\d{2}$', s)
iso_pattern(s) ==
    DateShapeAt(s, 1) /\ At(s, 11) = "T" /\ TimeShapeAt(s, 12) /\ AtEnd(s, 20)

transform_consent_datetime(datetime_string, now, pads) ==
    LET cleaned_datetime == handle_null_or_empty(datetime_string, <<>>)
        cleaned == strip_timezone(strip_day_name(cleaned_datetime))
        first == strptime(cleaned, LongFormat)
        second == fromisoformat(replace_Z(cleaned_datetime))
    IN  IF cleaned_datetime = <<>> THEN strftime_datetime(now, pads)
        ELSE IF iso_pattern(cleaned_datetime) THEN cleaned_datetime
        ELSE IF first.ok THEN strftime_datetime(first.dt, pads)
        ELSE IF second.ok THEN strftime_datetime(second.dt, pads)
        ELSE strftime_datetime(now, pads)

-----------------------------------------------------------------------------
(* Inputs: JSON texts as a caller writes them                               *)

\* json.dumps(v); sep is the text after each ',' and ':'
RECURSIVE Dumps(_, _), DumpsJoin(_, _, _)
Dumps(v, sep) ==
    CASE v.t = "none" -> S_null
      [] v.t = "bool" -> IF v.b THEN S_true ELSE S_false
      [] v.t = "int"  -> IF v.n < 0 THEN <<"-">> \o IntToDigits(0 - v.n) ELSE IntToDigits(v.n)
      [] v.t = "str"  -> <<"\"">> \o v.s \o <<"\"">>
      [] v.t = "list" -> <<"[">> \o DumpsJoin([i \in DOMAIN v.xs |-> Dumps(v.xs[i], sep)], 1, sep)
                             \o <<"]">>
      [] v.t = "dict" ->
           <<"{">> \o DumpsJoin([i \in DOMAIN v.kv |->
                                   <<"\"">> \o v.kv[i][1] \o <<"\"", ":">> \o sep
                                       \o Dumps(v.kv[i][2], sep)], 1, sep)
               \o <<"}">>

DumpsJoin(parts, i, sep) ==
    IF i > Len(parts) THEN <<>>
    ELSE parts[i] \o (IF i < Len(parts) THEN <<",">> \o sep ELSE <<>>)
             \o DumpsJoin(parts, i + 1, sep)

\* the question templates of the upstream API: a description and an id
\* the API assigns (not the position)
TemplateDescription(i) == <<"D", DigitChars[(i % 10) + 1]>>
TemplateId(i) == 100 - 7 * i
Template(i) ==
    PyDict(<< <<K_questionDescription, PyStr(TemplateDescription(i))>>,
              <<K_questionId, PyInt(TemplateId(i))>> >>)
TemplateList(n) == PyList([i \in 1..n |-> Template(i)])

\* the largest template list and the largest answers mapping drawn
MaxTemplates == 5
MaxAnswers == 3

\* the answers a caller gives
AnswerValues == { <<>>, <<"Y">>, <<"n","o">> }

\* the question text a caller keys answer i of k with: a text of its own,
\* or the description of the template at the mirrored position
AnswerKey(style, i, k) ==
    IF style = "own" THEN <<"q", DigitChars[(i % 10) + 1]>>
    ELSE TemplateDescription(k + 1 - i)

\* answers mappings str -> str of 1..MaxAnswers entries, as item sequences
AnswerMappings ==
    UNION { { [i \in 1..k |-> <<AnswerKey(style, i, k), PyStr(vals[i])>>] :
                vals \in [1..k -> AnswerValues], style \in {"own", "mirror"} } :
            k \in 1..MaxAnswers }

BlankTexts == { <<>>,
      <<" ">>,
      <<"\t","\n">> }
MalformedTexts == { <<"{","b","a","d">>,
      <<"{","\"","q","1","\"",":","\"","Y","\"">>,
      <<"{","\"","q","1","\"",":","\"","Y","\"",",","}">>,
      <<"{","\"","q","1","\""," ","\"","Y","\"","}">>,
      <<"{","'","q","1","'",":","'","Y","'","}">>,
      <<"n","o","n","e">> }
EmptyMappingTexts == { <<"{","}">>,
      <<" ","{"," ","}"," ">> }
\* valid JSON, not an object, false in a condition
FalsyTexts == { <<"n","u","l","l">>,
      <<"0">>,
      <<"[","]">>,
      <<"\"","\"">>,
      <<"f","a","l","s","e">> }
\* valid JSON, not an object, true in a condition
NonObjectTexts == { <<"[","1","]">>,
      <<"5">>,
      <<"\"","a","b","c","\"">>,
      <<"t","r","u","e">>,
      <<"[","\"","Y","\"",",","\"","n","o","\"","]">> }
\* objects with a value that is not a string
NonStringValueTexts == { <<"{","\"","q","1","\"",":","t","r","u","e","}">>,
      <<"{","\"","q","1","\"",":","1","}">>,
      <<"{","\"","q","1","\"",":","{","\"","x","\"",":","1","}","}">>,
      <<"{","\"","q","1","\"",":","\"","Y","\"",",","\"","q","2","\"",":","[","\"","n","o","\"","]","}">>,
      <<"{","\"","q","1","\"",":","n","u","l","l","}">>,
      <<"{","\"","q","1","\"",":","f","a","l","s","e",",","\"","q","2","\"",":","0","}">> }
\* objects that repeat a key
RepeatedKeyTexts == { <<"{","\"","q","1","\"",":","\"","Y","\"",",","\"","q","1","\"",":","\"","\"",",","\"","q","2","\"",":","\"","N","o","\"","}">>,
      <<"{","\"","q","1","\"",":","\"","Y","\"",",","\"","q","2","\"",":","\"","n","o","\"",",","\"","q","1","\"",":","\"","N","\"","}">> }

Texts(kind, S) == { [kind |-> kind, entries |-> <<>>, q |-> PyStr(x)] : x \in S }

\* the answers inputs of the matcher, each with the mapping it was written from
AnswerInputs ==
    { [kind |-> "absent", entries |-> <<>>, q |-> PyNone] }
    \cup Texts("blank", BlankTexts)
    \cup Texts("malformed", MalformedTexts)
    \cup Texts("emptymap", EmptyMappingTexts)
    \cup Texts("falsy", FalsyTexts)
    \cup Texts("nonobject", NonObjectTexts)
    \cup Texts("nonstring", NonStringValueTexts)
    \cup Texts("repeated", RepeatedKeyTexts)
    \cup { [kind |-> "mapping", entries |-> e, q |-> PyStr(Dumps(PyDict(e), sep))] :
             e \in AnswerMappings, sep \in {<<>>, <<" ">>} }

MatchInputs ==
    { [kind |-> a.kind, entries |-> a.entries, q |-> a.q, t |-> TemplateList(n)] :
        a \in AnswerInputs, n \in 0..MaxTemplates }

-----------------------------------------------------------------------------
(* SpecMatch: transform_questions_with_api_match applied to drawn inputs    *)

InitMatch ==
    /\ fnIn \in MatchInputs
    /\ fnOut = PyNone
    /\ pc = "match"
    /\ env = NoEnv /\ libc = "glibc" /\ clock \in Clocks
    /\ endpoint = "" /\ request = PyNone /\ payload = PyNone /\ posts = 0
    /\ upstream = NoUpstream /\ outcome = NoOutcome

ApplyMatch ==
    /\ pc = "match"
    /\ fnOut' = transform_questions_with_api_match(fnIn.q, fnIn.t)
    /\ pc' = "matched"
    /\ UNCHANGED <<env, libc, clock, endpoint, request, payload, posts,
                   upstream, outcome, fnIn>>

NextMatch == ApplyMatch

SpecMatch == InitMatch /\ [][NextMatch]_vars

-----------------------------------------------------------------------------
(* Claims about the matcher, checked under SpecMatch *)

\* what the result holds at position i
EntryDescription(r, i) == DictGet(r.v.xs[i].kv, K_questionDescription)
EntryId(r, i) == DictGet(r.v.xs[i].kv, K_questionId)
EntryResponse(r, i) == DictGet(r.v.xs[i].kv, K_questionResponse)

\* the result is a list with one entry per template, entry i carrying the
\* description and the id of template i
MirrorsTemplates(r, t) ==
    /\ r.exc = ""
    /\ r.v.t = "list"
    /\ Len(r.v.xs) = Len(t.xs)
    /\ \A i \in 1..Len(t.xs) :
          /\ EntryDescription(r, i) = PyStr(TemplateDescription(i))
          /\ EntryId(r, i) = PyInt(TemplateId(i))

\* C1: for every template list (the empty one too) and every answers input
\* that is absent, blank, malformed JSON, an empty mapping or a mapping of
\* strings with fewer, as many or more entries than there are templates,
\* the result has exactly one entry per template and entry i carries the
\* description and id of template i; with no templates it is the empty list.
C1_ResultMirrorsTemplates ==
    (pc = "matched"
       /\ fnIn.kind \in {"absent", "blank", "malformed", "emptymap", "mapping", "repeated"})
    => /\ MirrorsTemplates(fnOut, fnIn.t)
       /\ (fnIn.t.xs = <<>> => fnOut.v = PyList(<<>>))

\* a mapping with more entries than templates, keyed by the descriptions of
\* other templates, has been matched against at least two templates
C1_Witness ==
    /\ pc = "matched"
    /\ fnIn.kind = "mapping"
    /\ Len(fnIn.entries) = 3 /\ Len(fnIn.t.xs) = 2
    /\ fnIn.entries[1][1] = TemplateDescription(3)
    /\ Len(fnOut.v.xs) = 2
    /\ EntryDescription(fnOut, 1) = PyStr(TemplateDescription(1))

\* the answer written at position i, lower-cased (of AnswerValues only "Y"
\* holds an upper-case letter)
LoweredAnswer(entries, i) ==
    IF entries[i][2].s = <<"Y">> THEN <<"y">> ELSE entries[i][2].s

\* C2: matching is positional: with n templates and a mapping of k >= 1
\* string answers, response i is the lower-cased i-th answer when i <= k and
\* that answer is not empty, and "na" otherwise, whatever the keys are.
C2_PositionalResponses ==
    (pc = "matched" /\ fnIn.kind = "mapping")
    => /\ fnOut.exc = ""
       /\ Len(fnOut.v.xs) = Len(fnIn.t.xs)
       /\ \A i \in 1..Len(fnIn.t.xs) :
             EntryResponse(fnOut, i) =
                 PyStr(IF i <= Len(fnIn.entries) /\ fnIn.entries[i][2].s # <<>>
                       THEN LoweredAnswer(fnIn.entries, i)
                       ELSE NA)

\* five templates and the answers "Y", "", "no" gave "y", "na", "no", "na", "na"
C2_Witness ==
    /\ pc = "matched"
    /\ fnIn.kind = "mapping"
    /\ Len(fnIn.t.xs) = 5
    /\ [i \in 1..Len(fnIn.entries) |-> fnIn.entries[i][2].s] = << <<"Y">>, <<>>, <<"n","o">> >>
    /\ [i \in 1..5 |-> EntryResponse(fnOut, i).s]
           = << <<"y">>, NA, <<"n","o">>, NA, NA >>

\* an answers input that json.loads rejects, or that is absent, blank or an
\* empty mapping, matched against at least one template
DegradedInput ==
    /\ pc = "matched"
    /\ fnIn.kind \in {"malformed", "absent", "blank", "emptymap"}
    /\ Len(fnIn.t.xs) >= 1

C7_NeverRaises ==
    pc = "matched" => fnOut.exc = ""

-----------------------------------------------------------------------------
(* SpecDate: transform_schedule_date applied twice to drawn inputs          *)

YearTexts == { <<"2","0","2","5">>,
      <<"2","0","2","4">>,
      <<"0","9","9","9">> }
MonthTexts == { <<"0","8">>,
      <<"8">>,
      <<"0","2">>,
      <<"1","3">> }
DayTexts == { <<"0","4">>,
      <<"4">>,
      <<"2","9">>,
      <<"3","1">> }
MonthWords == { <<"A","u","g","u","s","t">>,
      <<"f","e","b","r","u","a","r","y">> }
TimeSuffixes == { <<"T","1","0",":","3","0",":","0","0">>,
      <<"T","1","0",":","3","0",":","0","0","Z">>,
      <<"T","1","0",":","3","0",":","0","0",".","1","2","3","Z">>,
      <<" ","1","0",":","3","0",":","0","0">> }
OtherDateTexts == { <<>>,
      <<" ">>,
      <<"n","u","l","l">>,
      <<"N","o","n","e">>,
      <<"b","a","d">>,
      <<"2","0","2","5","-","0","8","-","0","4","\n">>,
      <<"2","0","2","5","-","8","-","4","T","1","0",":","3","0",":","0","0">> }

\* year-month-day texts; the ones of two-digit month and day have the shape
\* YYYY-MM-DD
DashDateTexts ==
    { y \o <<"-">> \o m \o <<"-">> \o d : y \in YearTexts, m \in MonthTexts, d \in DayTexts }

\* the schedule dates a caller sends: blank, YYYY-MM-DD shaped, datetime
\* shaped, in each of the recognized formats, and unparseable
DateInputs ==
    OtherDateTexts
    \cup DashDateTexts
    \cup { x \o t : x \in DashDateTexts, t \in TimeSuffixes }
    \cup { a \o <<"/">> \o b \o <<"/">> \o y :
             a \in MonthTexts \cup DayTexts, b \in MonthTexts \cup DayTexts, y \in YearTexts }
    \cup { y \o <<"/">> \o m \o <<"/">> \o d : y \in YearTexts, m \in MonthTexts, d \in DayTexts }
    \cup { w \o <<" ">> \o d \o <<",", " ">> \o y : w \in MonthWords, d \in DayTexts, y \in YearTexts }
    \cup { d \o <<" ">> \o w \o <<" ">> \o y : w \in MonthWords, d \in DayTexts, y \in YearTexts }

InitDate ==
    /\ fnIn \in { [x |-> PyStr(x)] : x \in DateInputs }
    /\ fnOut = <<>>
    /\ pc = "date"
    /\ libc \in LibCs /\ clock \in Clocks
    /\ env = NoEnv
    /\ endpoint = "" /\ request = PyNone /\ payload = PyNone /\ posts = 0
    /\ upstream = NoUpstream /\ outcome = NoOutcome

\* y = transform_schedule_date(x)
ApplyDate ==
    /\ pc = "date"
    /\ fnOut' = << transform_schedule_date(fnIn.x, clock, PadsYear) >>
    /\ pc' = "dated"
    /\ UNCHANGED <<env, libc, clock, endpoint, request, payload, posts,
                   upstream, outcome, fnIn>>

\* transform_schedule_date(y), under the same clock
ReapplyDate ==
    /\ pc = "dated"
    /\ fnOut' = Append(fnOut, transform_schedule_date(PyStr(fnOut[1]), clock, PadsYear))
    /\ pc' = "redated"
    /\ UNCHANGED <<env, libc, clock, endpoint, request, payload, posts,
                   upstream, outcome, fnIn>>

NextDate == ApplyDate \/ ReapplyDate

SpecDate == InitDate /\ [][NextDate]_vars

\* C9: under a fixed clock transform_schedule_date is idempotent: for every
\* input x, transform_schedule_date(transform_schedule_date(x)) equals
\* transform_schedule_date(x).
C9_Idempotent ==
    pc = "redated" => fnOut[2] = fnOut[1]

-----------------------------------------------------------------------------
(* The routes *)

K_clientCode == <<"c","l","i","e","n","t","C","o","d","e">>
K_clientOrderNumber == <<"c","l","i","e","n","t","O","r","d","e","r","N","u","m","b","e","r">>
K_scheduledDate == <<"s","c","h","e","d","u","l","e","d","D","a","t","e">>
K_consigneeName == <<"c","o","n","s","i","g","n","e","e","N","a","m","e">>
K_phoneNumber == <<"p","h","o","n","e","N","u","m","b","e","r">>
K_aiConsent == <<"a","i","C","o","n","s","e","n","t">>
K_consentDateTime == <<"c","o","n","s","e","n","t","D","a","t","e","T","i","m","e">>
K_questions == <<"q","u","e","s","t","i","o","n","s">>
K_groupId == <<"g","r","o","u","p","I","d">>
K_raw_response == <<"r","a","w","_","r","e","s","p","o","n","s","e">>
K_availableDates == <<"a","v","a","i","l","a","b","l","e","D","a","t","e","s">>

\* CredentialMissing as `if api_header_value == ""`: an unset variable passes
CredentialMissing_only_empty(api_header_value) == api_header_value = PyStr(<<>>)

\* `if not api_header_value`, on what os.getenv returned
CredentialMissing(api_header_value) == ~Truthy(api_header_value)

\* a route's 500: an HTTPException it raises, or an exception it lets escape
ErrorOutcome(exc) == [kind |-> "error", status_code |-> 500, exc |-> exc]

\* the payload of schedule_appointment from the request and the matched
\* questions
SchedulePayload(req, transformed_questions, now, pads) ==
    LET body == <<
            <<K_clientCode, PyStr(handle_null_or_empty(req.clientCode, <<>>))>>,
            <<K_clientOrderNumber, PyStr(handle_null_or_empty(req.clientOrderNumber, <<>>))>>,
            <<K_scheduledDate, PyStr(transform_schedule_date(req.scheduledDate, now, pads))>>,
            <<K_consigneeName, PyStr(handle_null_or_empty(req.consigneeName, <<>>))>>,
            <<K_phoneNumber, PyStr(handle_null_or_empty(req.phoneNumber, <<>>))>>,
            <<K_aiConsent, PyStr(transform_ai_consent(req.aiConsent))>>,
            <<K_consentDateTime, PyStr(transform_consent_datetime(req.consentDateTime, now, pads))>>,
            <<K_questions, transformed_questions>> >>
        clean_group == IF req.groupId # PyNone
                       THEN handle_null_or_empty(req.groupId, <<>>)
                       ELSE <<>>
    IN  PyDict(IF clean_group # <<>>
               THEN Append(body, <<K_groupId, PyStr(clean_group)>>)
               ELSE body)

\* schedule_appointment up to its requests.post: the error it ends with, or
\* the payload it posts
ScheduleBeforePost(req, environ, now, pads) ==
    LET loaded == IF Truthy(req.real_questions)
                  THEN json_loads(req.real_questions.s)
                  ELSE [ok |-> TRUE, v |-> PyList(<<>>)]
        api_questions == loaded.v
        transformed_questions ==
            transform_questions_with_api_match(req.questions, api_questions)
    IN  IF ~loaded.ok THEN ErrorOutcome("JSONDecodeError")
        ELSE IF CredentialMissing(environ.API_HEADER_VALUE) THEN ErrorOutcome("HTTPException")
        ELSE IF transformed_questions.exc # "" THEN ErrorOutcome(transformed_questions.exc)
        ELSE [kind |-> "post",
              payload |-> SchedulePayload(req, transformed_questions.v, now, pads)]

\* schedule_appointment_custom up to its requests.post
CustomBeforePost(body, environ) ==
    IF CredentialMissing(environ.API_HEADER_KEY) THEN ErrorOutcome("HTTPException")
    ELSE [kind |-> "post", payload |-> body]

\* get_available_dates up to the requests.post of
\* fetch_available_dates_and_questions, which returns None without a key
DatesBeforePost(req, environ) ==
    IF CredentialMissing(environ.API_HEADER_VALUE) THEN ErrorOutcome("HTTPException")
    ELSE [kind |-> "post",
          payload |-> PyDict(<< <<K_clientCode, req.clientCode>>,
                                <<K_clientOrderNumber, req.clientOrderNumber>> >>)]

\* f"HTTP {response.status_code}: {response.text}"
HttpErrorMessage(status_code, text) ==
    <<"H","T","T","P"," ">> \o IntToDigits(status_code) \o <<":"," ">> \o text

\* ScheduleResponse(...): response_data is Optional[dict], and pydantic
\* raises ValidationError for anything else
ScheduleResponse(success, status_code, response_data, error_message) ==
    IF response_data.t \in {"dict", "none"}
    THEN [kind |-> "response", success |-> success, status_code |-> status_code,
          response_data |-> response_data, error_message |-> error_message]
    ELSE ErrorOutcome("ValidationError")

\* schedule_appointment and schedule_appointment_custom after their
\* requests.post returned a response
RelayResponse(status_code, text) ==
    LET parsed == json_loads(text)
        response_data == IF parsed.ok THEN parsed.v
                         ELSE PyDict(<< <<K_raw_response, PyStr(text)>> >>)
        is_successful == status_code = 200
    IN  ScheduleResponse(is_successful, status_code, response_data,
                         IF is_successful THEN PyNone
                         ELSE PyStr(HttpErrorMessage(status_code, text)))

\* data.get(key, [])
GetOrEmptyList(data, key) ==
    IF DictHas(data.kv, key) THEN DictGet(data.kv, key) ELSE PyList(<<>>)

\* get_available_dates after the requests.post of
\* fetch_available_dates_and_questions returned a response
DatesResponse(status_code, text) ==
    LET parsed == json_loads(text)
        data == parsed.v
        failed == ErrorOutcome("HTTPException")
    IN  IF status_code # 200 THEN failed
        ELSE IF ~parsed.ok THEN failed
        ELSE IF data.t # "dict" THEN ErrorOutcome("AttributeError")
        ELSE IF GetOrEmptyList(data, K_questions).t \notin {"list", "str", "dict"}
        THEN ErrorOutcome("TypeError")
        ELSE IF ~Truthy(data) THEN failed
        ELSE [kind |-> "dates", success |-> TRUE,
              availableDates |-> GetOrEmptyList(data, K_availableDates),
              questions |-> GetOrEmptyList(data, K_questions)]

\* AfterTransportError with one more attempt before giving up
AfterTransportError_retry(route, n) ==
    IF n < 2
    THEN [pc |-> "posting", posts |-> n + 1, outcome |-> NoOutcome]
    ELSE [pc |-> "done", posts |-> n, outcome |-> ErrorOutcome("HTTPException")]

\* a route once requests.post raised a RequestException with n posts made:
\* where it goes, the posts made by then, and what the caller receives
AfterTransportError(route, n) ==
    [pc |-> "done", posts |-> n, outcome |-> ErrorOutcome("HTTPException")]

-----------------------------------------------------------------------------
(* Inputs of the routes *)

Strs(S) == { PyStr(x) : x \in S }

ScheduleRequest(cc, con, sd, cn, pn, ac, cdt, q, g, rq) ==
    [clientCode |-> cc, clientOrderNumber |-> con, scheduledDate |-> sd,
     consigneeName |-> cn, phoneNumber |-> pn, aiConsent |-> ac,
     consentDateTime |-> cdt, questions |-> q, groupId |-> g, real_questions |-> rq]

\* blank and null texts of a field
BlankFieldTexts == { <<>>,
      <<" ">>,
      <<"n","u","l","l">>,
      <<"N","o","n","e">> }
BlankQuestionsTexts == { <<>>,
      <<" ">>,
      <<"n","u","l","l">>,
      <<"n","o","n","e">> }
BlankGroupIds == {PyNone} \cup Strs({ <<>>,
      <<"n","u","l","l">> })
BlankRealQuestions == {PyNone} \cup Strs({ <<>>,
      <<" ">>,
      <<"n","u","l","l">>,
      <<"n","o","n","e">> })

\* requests whose every field is blank or null
BlankRequests ==
    { ScheduleRequest(PyStr(b), PyStr(b), PyStr(b), PyStr(b), PyStr(b), PyStr(b), PyStr(b),
                      PyStr(q), g, rq) :
        b \in BlankFieldTexts, q \in BlankQuestionsTexts,
        g \in BlankGroupIds, rq \in BlankRealQuestions }

TypicalRequest ==
    ScheduleRequest(PyStr(<<"R","Y">>), PyStr(<<"1","0","0","1">>),
        PyStr(<<"0","8","/","0","4","/","2","0","2","5">>),
        PyStr(<<"A","l">>), PyStr(<<"5","5","5">>), PyStr(<<"Y","e","s">>),
        PyStr(<<"M","o","n","d","a","y",","," ","A","u","g","u","s","t"," ","4",","," ","2","0","2","5"," ","4",":","5","0",":","1","5"," ","A","M"," ","E","D","T">>),
        PyStr(Dumps(PyDict(<< <<AnswerKey("own", 1, 2), PyStr(<<"Y">>)>>,
                              <<AnswerKey("own", 2, 2), PyStr(<<>>)>> >>), <<>>)),
        PyStr(<<"G","1">>),
        PyStr(Dumps(TemplateList(2), <<" ">>)))

NameSamples == Strs({ <<>>,
           <<" ">>,
           <<"n","u","l","l">>,
           <<"N","O","N","E">>,
           <<" ","n","u","l","l">> })
ScheduledDateSamples == Strs({ <<>>,
           <<"n","u","l","l">>,
           <<"2","0","2","5","-","0","8","-","0","4">>,
           <<"2","0","2","5","-","0","8","-","0","4","T","1","0",":","3","0",":","0","0","Z">>,
           <<"0","9","9","9","/","8","/","4">>,
           <<"b","a","d">>,
           <<"A","u","g","u","s","t"," ","4",","," ","2","0","2","5">> })
AiConsentSamples == Strs({ <<>>,
           <<"n","u","l","l">>,
           <<"y">>,
           <<"T","R","U","E">>,
           <<"0">>,
           <<"n","o">> })
ConsentDateTimeSamples == Strs({ <<>>,
           <<"N","o","n","e">>,
           <<"2","0","2","5","-","0","8","-","0","4","T","1","0",":","3","0",":","0","0">>,
           <<"2","0","2","5","-","0","8","-","0","4","T","1","0",":","3","0",":","0","0","Z">>,
           <<"b","a","d">>,
           <<"A","u","g","u","s","t"," ","4",","," ","2","0","2","5"," ","1","2",":","0","0",":","0","0"," ","P","M">> })
GroupIdSamples == {PyNone} \cup Strs({ <<>>,
           <<"n","u","l","l">>,
           <<" ">>,
           <<"G","2">> })
QuestionsSamples == Strs({ <<>>,
           <<"n","u","l","l">>,
           <<"{","b","a","d">>,
           <<"{","}">>,
           <<"[","\"","Y","\"","]">>,
           <<"{","\"","q","1","\"",":","t","r","u","e","}">>,
           <<"{","\"","q","1","\"",":","\"","Y","\"",",","\"","q","2","\"",":","\"","\"",",","\"","q","3","\"",":","\"","n","o","\"","}">> })
RealQuestionsSamples ==
    {PyNone, PyStr(Dumps(TemplateList(0), <<>>)), PyStr(Dumps(TemplateList(1), <<>>)),
     PyStr(Dumps(TemplateList(3), <<" ">>))}
    \cup Strs({ <<>>,
           <<" ">>,
           <<"n","u","l","l">>,
           <<"n","o","n","e">>,
           <<"5">>,
           <<"{","\"","a","\"",":","1","}">>,
           <<"[","1","]">>,
           <<"[","{","\"","q","u","e","s","t","i","o","n","D","e","s","c","r","i","p","t","i","o","n","\"",":","\"","D","1","\"","}","]">> })

\* the typical request with one field replaced, or with its answers and its
\* templates replaced
VariedRequests ==
    { [TypicalRequest EXCEPT ![f] = x] :
        f \in {"clientCode", "clientOrderNumber", "consigneeName", "phoneNumber"},
        x \in NameSamples }
    \cup { [TypicalRequest EXCEPT !.scheduledDate = x] : x \in ScheduledDateSamples }
    \cup { [TypicalRequest EXCEPT !.aiConsent = x] : x \in AiConsentSamples }
    \cup { [TypicalRequest EXCEPT !.consentDateTime = x] : x \in ConsentDateTimeSamples }
    \cup { [TypicalRequest EXCEPT !.groupId = x] : x \in GroupIdSamples }
    \cup { [TypicalRequest EXCEPT !.questions = q, !.real_questions = rq] :
             q \in QuestionsSamples, rq \in RealQuestionsSamples }

ScheduleRequests == {TypicalRequest} \cup BlankRequests \cup VariedRequests

\* bodies of schedule_appointment_custom: any JSON object
CustomPayloads ==
    { PyDict(<<>>), PyDict(<< <<K_clientCode, PyStr(<<"R","Y">>)>> >>) }

AvailableDatesRequests ==
    { [clientCode |-> PyStr(<<"R","Y">>), clientOrderNumber |-> PyStr(n)] :
        n \in { <<>>, <<"1","0","0","1">> } }

\* what os.getenv finds: a variable is unset, empty or set
Environments ==
    { [API_HEADER_VALUE |-> v, API_HEADER_KEY |-> k] :
        v \in {PyNone, PyStr(<<>>), PyStr(<<"k","1">>)},
        k \in {PyNone, PyStr(<<"k","2">>)} }

\* what the upstream API answers
StatusCodes == {200, 400, 500}
ResponseTexts ==
    { <<>>, <<"B","a","d"," ","G","a","t","e","w","a","y">>,
      <<"n","u","l","l">>,
      <<"\"","O","K","\"">>,
      <<"{","\"","o","k","\"",":","t","r","u","e","}">>,
      <<"{","}">>,
      <<"{","\"","a","v","a","i","l","a","b","l","e","D","a","t","e","s","\"",":","[","\"","2","0","2","5","-","0","8","-","0","4","\"","]",",","\"","q","u","e","s","t","i","o","n","s","\"",":","[","]","}">>,
      <<"{","\"","q","u","e","s","t","i","o","n","s","\"",":","5","}">> }

-----------------------------------------------------------------------------
(* Spec: the server serving one request after another *)

Init ==
    /\ env \in Environments
    /\ libc \in LibCs
    /\ clock \in Clocks
    /\ pc = "idle"
    /\ endpoint = "" /\ request = PyNone /\ payload = PyNone /\ posts = 0
    /\ upstream = NoUpstream /\ outcome = NoOutcome
    /\ fnIn = PyNone /\ fnOut = PyNone

\* a route runs from the request to its requests.post or to its error
Begin(route, req, r) ==
    /\ pc = "idle"
    /\ endpoint' = route
    /\ request' = req
    /\ IF r.kind = "post"
       THEN /\ payload' = r.payload
            /\ posts' = posts + 1
            /\ outcome' = NoOutcome
            /\ pc' = "posting"
       ELSE /\ payload' = PyNone
            /\ posts' = posts
            /\ outcome' = r
            /\ pc' = "done"
    /\ UNCHANGED <<env, libc, clock, upstream, fnIn, fnOut>>

schedule_appointment ==
    \E req \in ScheduleRequests :
        Begin("schedule_appointment", req, ScheduleBeforePost(req, env, clock, PadsYear))

schedule_appointment_custom ==
    \E body \in CustomPayloads :
        Begin("schedule_appointment_custom", body, CustomBeforePost(body, env))

get_available_dates ==
    \E req \in AvailableDatesRequests :
        Begin("get_available_dates", req, DatesBeforePost(req, env))

\* requests.post returns a response and the route runs to its end
UpstreamResponds ==
    \E status_code \in StatusCodes, text \in ResponseTexts :
        /\ pc = "posting"
        /\ upstream' = [kind |-> "response", status_code |-> status_code, text |-> text]
        /\ outcome' = IF endpoint = "get_available_dates"
                      THEN DatesResponse(status_code, text)
                      ELSE RelayResponse(status_code, text)
        /\ pc' = "done"
        /\ UNCHANGED <<env, libc, clock, endpoint, request, payload, posts, fnIn, fnOut>>

\* requests.post raises a RequestException (DNS, connect, timeout)
UpstreamFails ==
    /\ pc = "posting"
    /\ upstream' = [kind |-> "transport_error"]
    /\ LET r == AfterTransportError(endpoint, posts)
       IN  /\ pc' = r.pc
           /\ posts' = r.posts
           /\ outcome' = r.outcome
    /\ UNCHANGED <<env, libc, clock, endpoint, request, payload, fnIn, fnOut>>

\* the response is sent and the server takes the next request
NextRequest ==
    /\ pc = "done"
    /\ pc' = "idle"
    /\ endpoint' = "" /\ request' = PyNone /\ payload' = PyNone /\ posts' = 0
    /\ upstream' = NoUpstream /\ outcome' = NoOutcome
    /\ UNCHANGED <<env, libc, clock, fnIn, fnOut>>

Next ==
    \/ schedule_appointment
    \/ schedule_appointment_custom
    \/ get_available_dates
    \/ UpstreamResponds
    \/ UpstreamFails
    \/ NextRequest

Spec == Init /\ [][Next]_vars

-----------------------------------------------------------------------------
(* Claims about the routes, checked under Spec *)

\* the environment variable a route reads its subscription key from
CredentialOf(route) ==
    IF route = "schedule_appointment_custom" THEN env.API_HEADER_KEY
    ELSE env.API_HEADER_VALUE

\* C4: on each of the three routes that forward upstream, a request served
\* while the route's subscription key is absent from the environment ends
\* with a server error (HTTP 500) and makes no POST at any point.
C4_NoCredentialNoPost ==
    (pc # "idle" /\ CredentialOf(endpoint) = PyNone)
    => /\ pc = "done"
       /\ posts = 0
       /\ upstream = NoUpstream
       /\ outcome.kind = "error"
       /\ outcome.status_code = 500

\* schedule_appointment has refused a request for want of its key
C4_Witness ==
    /\ pc = "done"
    /\ endpoint = "schedule_appointment"
    /\ env.API_HEADER_VALUE = PyNone
    /\ request = TypicalRequest
    /\ outcome = ErrorOutcome("HTTPException")
    /\ posts = 0

\* C5: whenever the POST of schedule_appointment completes with a status
\* code s and some body, the route returns a ScheduleResponse (no server
\* error) with status_code = s and success = (s = 200), and for s # 200 a
\* non-null error_message.
C5_RelaysEveryResponse ==
    (pc = "done" /\ endpoint = "schedule_appointment" /\ upstream.kind = "response")
    => /\ outcome.kind = "response"
       /\ outcome.status_code = upstream.status_code
       /\ outcome.success = (upstream.status_code = 200)
       /\ (upstream.status_code # 200 => outcome.error_message # PyNone)

PayloadKeys ==
    { K_clientCode, K_clientOrderNumber, K_scheduledDate, K_consigneeName,
      K_phoneNumber, K_aiConsent, K_consentDateTime, K_questions }

\* C6: with the key present, schedule_appointment reaches its POST with a
\* complete payload for every request, whatever its string fields hold.
C6_PayloadAlwaysBuilt ==
    (pc # "idle" /\ endpoint = "schedule_appointment"
       /\ ~CredentialMissing(env.API_HEADER_VALUE))
    => /\ posts >= 1
       /\ payload.t = "dict"
       /\ \A k \in PayloadKeys : DictHas(payload.kv, k)

\* C8: a schedule_appointment request whose every field is blank or null
\* (questions, groupId and real_questions too) gives the payload with empty
\* clientCode, clientOrderNumber, consigneeName and phoneNumber, aiConsent
\* "false", the current timestamp and date, questions = [] and no groupId.
C8_BlankRequestPayload ==
    (pc # "idle" /\ endpoint = "schedule_appointment"
       /\ request \in BlankRequests
       /\ ~CredentialMissing(env.API_HEADER_VALUE))
    => payload = PyDict(<<
           <<K_clientCode, PyStr(<<>>)>>,
           <<K_clientOrderNumber, PyStr(<<>>)>>,
           <<K_scheduledDate, PyStr(strftime_date(clock, PadsYear))>>,
           <<K_consigneeName, PyStr(<<>>)>>,
           <<K_phoneNumber, PyStr(<<>>)>>,
           <<K_aiConsent, PyStr(S_false)>>,
           <<K_consentDateTime, PyStr(strftime_datetime(clock, PadsYear))>>,
           <<K_questions, PyList(<<>>)>> >>)

\* what holds in every state of a request: at most one POST; a transport
\* error ends it with a 500; after its POST a scheduling route ends with a
\* ScheduleResponse or with a 500
OnePostTwoOutcomes ==
    /\ posts <= 1
    /\ (upstream.kind = "transport_error")
          => (pc = "done" /\ posts = 1 /\ outcome = ErrorOutcome("HTTPException"))
    /\ (pc = "done" /\ posts = 1
          /\ endpoint \in {"schedule_appointment", "schedule_appointment_custom"})
          => \/ outcome.kind = "response"
             \/ outcome.kind = "error" /\ outcome.status_code = 500

\* C10: a request makes at most one POST; a transport-level failure of that
\* POST ends the request with a server error (HTTP 500) and the POST is not
\* attempted again; once the POST is made the request's only step is to one
\* of its two ends, a relayed ScheduleResponse or a server error.
C10_AtMostOnePost ==
    /\ []OnePostTwoOutcomes
    /\ [][pc = "posting" => (pc' = "done" /\ posts' = posts)]_vars

\* the POST of schedule_appointment has failed in transport
C10_Witness ==
    /\ pc = "done"
    /\ endpoint = "schedule_appointment"
    /\ upstream.kind = "transport_error"
    /\ posts = 1
    /\ outcome.kind = "error" /\ outcome.status_code = 500

=============================================================================
